---- MODULE Spec2Model ----
(***************************************************************************)
(* mdbook-git-info: a preprocessor that appends, to every chapter of a     *)
(* book, a table built from the `git log` of the chapter's source file.    *)
(*                                                                         *)
(* The repository holds two implementations of the Preprocessor trait:     *)
(*   GitInfo              (src/main.rs, the one `main` constructs)         *)
(*   GitInfoPreprocessor  (src/preprocessor.rs + src/git_history.rs)       *)
(* Both are modelled; the variable `pre` says which one is driven.         *)
(*                                                                         *)
(* Text is a sequence of symbols (each symbol a TLA+ string): the quote,   *)
(* the tab, a one-symbol author name, a whole timestamp literal.           *)
(***************************************************************************)
EXTENDS Integers, Sequences, FiniteSets, TLC

\* ------------------------------------------------------------------ bounds
\* Items of the book, in for_each_mut's traversal order.
MaxUnits == 2
\* Lines of `git log` output per chapter, in the whole-program specification.
MaxLines == 2
\* Lines of `git log` output in the aggregation specification.
MaxLog == 5

\* ----------------------------------------------------------------- symbols
Q == "\""
TAB == "\t"
T1 == "2024-01-01T10:00:00+00:00"
T2 == "2024-02-01T09:00:00+01:00"
T3 == "2024-03-05T23:00:00-02:00"
BadTime == "yesterday"

\* Byte order of the symbols used (str's Ord is bytewise lexicographic).
Alphabet == <<TAB, Q, T1, T2, T3, "<br>", "A", "B", "C", "n/a", BadTime>>

Rank(sym) == CHOOSE i \in 1..Len(Alphabet) : Alphabet[i] = sym

RECURSIVE StrLess(_, _)
StrLess(a, b) ==
  IF b = <<>> THEN FALSE
  ELSE IF a = <<>> THEN TRUE
  ELSE IF Head(a) = Head(b) THEN StrLess(Tail(a), Tail(b))
  ELSE Rank(Head(a)) < Rank(Head(b))

\* Option<T> is a sequence of length 0 (None) or 1 (Some).
None == <<>>
Some(x) == <<x>>
IsSome(o) == Len(o) = 1

\* ------------------------------------------------------------ line parsing
RECURSIVE trim_start_matches(_, _)
trim_start_matches(s, c) == IF s # <<>> /\ Head(s) = c THEN trim_start_matches(Tail(s), c) ELSE s

RECURSIVE trim_end_matches(_, _)
trim_end_matches(s, c) ==
  IF s # <<>> /\ s[Len(s)] = c THEN trim_end_matches(SubSeq(s, 1, Len(s) - 1), c) ELSE s

\* str::trim_matches: every leading and every trailing c is removed.
trim_matches(s, c) == trim_end_matches(trim_start_matches(s, c), c)

\* str::split: the pieces between separators; always at least one piece.
RECURSIVE split(_, _)
split(s, sep) ==
  IF \A i \in 1..Len(s) : s[i] # sep THEN <<s>>
  ELSE LET k == CHOOSE i \in 1..Len(s) :
                  s[i] = sep /\ \A j \in 1..(i - 1) : s[j] # sep
       IN <<SubSeq(s, 1, k - 1)>> \o split(SubSeq(s, k + 1, Len(s)), sep)

\* The timestamp literals chrono accepts, as local day of 2024, hour, offset.
Rfc3339 ==
  [x \in {T1, T2, T3} |->
     CASE x = T1 -> [day |-> 1, hour |-> 10, off |-> 0]
       [] x = T2 -> [day |-> 32, hour |-> 9, off |-> 1]
       [] x = T3 -> [day |-> 65, hour |-> 23, off |-> -2]]

\* DateTime::parse_from_rfc3339: Err unless the text is one accepted literal.
parse_from_rfc3339(s) ==
  IF Len(s) = 1 /\ s[1] \in DOMAIN Rfc3339 THEN Some(Rfc3339[s[1]]) ELSE None

\* DateTime::with_timezone(&Utc): the instant, in hours since 2024-01-00T00Z.
with_timezone(t) == [hours |-> t.day * 24 + t.hour - t.off]

\* FromIterator<&str>: the first two pieces; `panic` when an unwrap fails.
\* Pieces after the second are never looked at.
from_iter(fields) ==
  IF Len(fields) < 2 THEN [panic |-> TRUE, entry |-> None]
  ELSE IF ~IsSome(parse_from_rfc3339(fields[2])) THEN [panic |-> TRUE, entry |-> None]
  ELSE [panic |-> FALSE,
        entry |-> Some([author |-> fields[1],
                        timestamp |-> with_timezone(parse_from_rfc3339(fields[2])[1])])]

ParseLine(line) == from_iter(split(trim_matches(line, Q), TAB))

\* .lines().map(..).collect::<Vec<_>>(): panics at the first line that does.
ParseLog(lines) ==
  IF \E i \in 1..Len(lines) : ParseLine(lines[i]).panic
  THEN [panic |-> TRUE, log |-> <<>>]
  ELSE [panic |-> FALSE, log |-> [i \in 1..Len(lines) |-> ParseLine(lines[i]).entry[1]]]

\* ------------------------------------------------------------- aggregation
Max(a, b) == IF a >= b THEN a ELSE b

\* history.first() / history.last()
First(history) == IF history = <<>> THEN None ELSE Some(history[1])
Last(history) == IF history = <<>> THEN None ELSE Some(history[Len(history)])

\* A mutant of Candidates: take(len - 1), which lets the oldest entry in.
CandidatesTakeTooMany(history) == SubSeq(history, 2, Len(history))

\* .iter().skip(1).take(history.len().saturating_sub(2))
Candidates(history) == SubSeq(history, 2, 1 + Max(Len(history) - 2, 0))

\* A mutant of KeepCandidate: the filter forgets the newest commit's author.
KeepCandidateAlways(last_commit, entry) == TRUE

\* The filter_map closure: None for an entry by the newest commit's author.
KeepCandidate(last_commit, entry) ==
  ~(IsSome(last_commit) /\ last_commit[1].author = entry.author)

RECURSIVE filter_map(_, _)
filter_map(last_commit, cands) ==
  IF cands = <<>> THEN <<>>
  ELSE (IF KeepCandidate(last_commit, Head(cands)) THEN <<Head(cands).author>> ELSE <<>>)
       \o filter_map(last_commit, Tail(cands))

\* .collect::<HashSet<_>>()
CollectHashSet(names) == {names[i] : i \in 1..Len(names)}

\* HashSet::into_iter().collect::<Vec<_>>(): the elements, each once, in an
\* order the hasher decides.
IntoIterOrders(set) ==
  {v \in [1..Cardinality(set) -> set] : \A x \in set : \E i \in DOMAIN v : v[i] = x}

RECURSIVE Insert(_, _)
Insert(x, sorted) ==
  IF sorted = <<>> THEN <<x>>
  ELSE IF StrLess(Head(sorted), x) THEN <<Head(sorted)>> \o Insert(x, Tail(sorted))
  ELSE <<x>> \o sorted

\* A mutant of sort_unstable: the sort is forgotten.
sort_unstable_skipped(v) == v

\* other_contributors.sort_unstable() (main.rs: .sort()): ascending by Ord.
RECURSIVE sort_unstable(_)
sort_unstable(v) == IF v = <<>> THEN <<>> ELSE Insert(Head(v), sort_unstable(Tail(v)))

\* Every value other_contributors can end with, over the hasher's orders.
OtherContributors(history) ==
  {sort_unstable(v) :
     v \in IntoIterOrders(CollectHashSet(filter_map(First(history), Candidates(history))))}

\* --------------------------------------------------------------- rendering
\* chrono's format("%d %b %Y") of a UTC instant.
FormatDate(t) ==
  LET d == t.hours \div 24
  IN CASE d = 1 -> "01 Jan 2024"
       [] d = 32 -> "01 Feb 2024"
       [] d = 65 -> "05 Mar 2024"
       [] d = 66 -> "06 Mar 2024"

NA == <<"n/a">>
DateCell(commit) == IF IsSome(commit) THEN <<FormatDate(commit[1].timestamp)>> ELSE NA
AuthorCell(commit) == IF IsSome(commit) THEN commit[1].author ELSE NA

\* [&str]::join(sep)
RECURSIVE join(_, _)
join(names, sep) ==
  IF names = <<>> THEN <<>>
  ELSE IF Len(names) = 1 THEN names[1]
  ELSE names[1] \o <<sep>> \o join(Tail(names), sep)

\* The fragment preprocessor.rs appends: the header's titles and the row's cells.
FragmentLib(first_commit, last_commit, other_contributors) ==
  [header |-> <<"Created on", "Created by", "Last edit on", "Last edit by",
                "Other contributors">>,
   row |-> <<DateCell(first_commit), AuthorCell(first_commit),
             DateCell(last_commit), AuthorCell(last_commit),
             join(other_contributors, "<br>")>>]

\* The fragment main.rs appends.
FragmentBin(first_commit, last_commit, other_contributors) ==
  [header |-> <<"Created on", "Last edit on", "By", "Other contributors">>,
   row |-> <<DateCell(first_commit), DateCell(last_commit), AuthorCell(last_commit),
             join(other_contributors, "<br>")>>]

\* The cell of a fragment under a title, None when the table has no such column.
Cell(frag, title) ==
  IF \E i \in 1..Len(frag.header) : frag.header[i] = title
  THEN Some(frag.row[CHOOSE i \in 1..Len(frag.header) : frag.header[i] = title])
  ELSE None

\* ------------------------------------------------------------------ errors
\* An anyhow::Error: its message, what the message carries, and the contexts
\* added on its way up (outermost first).
NoError == [msg |-> "", code |-> 0, out |-> <<>>, err |-> "", ctx |-> <<>>]
Error(msg) == [NoError EXCEPT !.msg = msg]
context(e, c) == [e EXCEPT !.ctx = <<c>> \o @]

\* Option::unwrap_or
unwrap_or(o, d) == IF IsSome(o) THEN o[1] ELSE d

\* ExitStatus::success
success(code) == code = Some(0)

\* What one run of `git log` does: whether it was spawned and waited for, its
\* exit code (None: killed by a signal), its stdout (valid UTF-8 or not, and
\* its lines) and its stderr.
GitRun(launch, code, utf8, lines, err) ==
  [launch |-> launch, code |-> code, utf8 |-> utf8, lines |-> lines, err |-> err]

\* What a call of enrich_chapter comes to: Ok, Err(e) or a panic; the chapter's
\* content after it; the queries it spawned; what it printed on stderr; and the
\* aggregation's locals when it got that far.
Outcome(tag, e, content, spawned, printed, agg) ==
  [tag |-> tag, err |-> e, content |-> content, spawned |-> spawned,
   printed |-> printed, agg |-> agg]

Summary(history, oc) ==
  [history |-> history, first_commit |-> Last(history), last_commit |-> First(history),
   other_contributors |-> oc]

\* ---------------------------------------------- git_history.rs: extract
QueryFailed(git) ==
  [NoError EXCEPT !.msg = "Git log failed", !.code = unwrap_or(git.code, -1),
                  !.out = git.lines, !.err = git.err]

extract(git) ==
  IF git.launch = "spawn_failed"
  THEN [tag |-> "err", err |-> Error("Failed to launch git log"), log |-> <<>>]
  ELSE IF git.launch = "wait_failed"
  THEN [tag |-> "err", err |-> Error("Failed to wait on git log"), log |-> <<>>]
  ELSE IF ~success(git.code)
  THEN [tag |-> "err", err |-> QueryFailed(git), log |-> <<>>]
  ELSE IF ~git.utf8
  THEN [tag |-> "err", err |-> Error("Invalid UTF-8 output from git"), log |-> <<>>]
  ELSE IF ParseLog(git.lines).panic
  THEN [tag |-> "panic", err |-> NoError, log |-> <<>>]
  ELSE [tag |-> "ok", err |-> NoError, log |-> ParseLog(git.lines).log]

\* ------------------------------------------- preprocessor.rs: enrich_chapter
EnrichChapterLib(chapter, git, oc) ==
  IF ~IsSome(chapter.source_path)
  THEN Outcome("panic", NoError, chapter.content, 0, <<>>, None)
  ELSE LET x == extract(git)
           spawned == IF git.launch = "spawn_failed" THEN 0 ELSE 1
       IN IF x.tag = "panic"
          THEN Outcome("panic", NoError, chapter.content, spawned, <<>>, None)
          ELSE IF x.tag = "err"
          THEN Outcome("err", context(x.err, <<"Cannot extract git history">>),
                       chapter.content, spawned, <<>>, None)
          ELSE LET sum == Summary(x.log, oc)
               IN Outcome("ok", NoError,
                          Append(chapter.content,
                                 FragmentLib(sum.first_commit, sum.last_commit, oc)),
                          spawned, <<>>, Some(sum))

\* --------------------------------------------------- main.rs: enrich_chapter
EnrichChapterBin(chapter, git, oc) ==
  IF ~IsSome(chapter.source_path)
  THEN Outcome("panic", NoError, chapter.content, 0, <<>>, None)
  ELSE IF git.launch = "spawn_failed"
  THEN Outcome("err", Error("io error"), chapter.content, 0,
               <<"failed to launch git, not adding git-info to chapter">>, None)
  ELSE IF git.launch = "wait_failed"
  THEN Outcome("panic", NoError, chapter.content, 1, <<>>, None)
  ELSE IF ~success(git.code)
  THEN Outcome("err", Error("Git invocation failed"), chapter.content, 1,
               <<"git failed, exit code", "git STDOUT:", "stdout",
                 "git STDERR:", "stdout", "/git output">>, None)
  ELSE IF ~git.utf8 \/ ParseLog(git.lines).panic
  THEN Outcome("panic", NoError, chapter.content, 1, <<>>, None)
  ELSE LET sum == Summary(ParseLog(git.lines).log, oc)
       IN Outcome("ok", NoError,
                  Append(chapter.content,
                         FragmentBin(sum.first_commit, sum.last_commit, oc)),
                  1, <<>>, Some(sum))

\* The values other_contributors can take for this run of git (one, the empty
\* list, when the call never gets to the aggregation).
Orders(chapter, git) ==
  IF IsSome(chapter.source_path) /\ git.launch = "exited" /\ success(git.code)
     /\ git.utf8 /\ ~ParseLog(git.lines).panic
  THEN OtherContributors(ParseLog(git.lines).log)
  ELSE {<<>>}

\* ------------------------------------------------------------------- state
VARIABLES
  pre,        \* the Preprocessor main drives: "GitInfo" or "GitInfoPreprocessor"
  mode,       \* "supports" or "preprocess" (no subcommand)
  renderer,   \* the argument of `supports`
  input,      \* what stdin holds: whether it parses, its version, its book
  book,       \* the book's items in traversal order, once parsed
  pc,         \* "main", "run" (inside for_each_mut) or "exited"
  idx,        \* the item for_each_mut hands to the closure next
  error,      \* GitInfoPreprocessor::run's `error`
  units,      \* per item: what enrich_chapter came to and the queries it spawned
  last,       \* the latest enrich_chapter call: its item, git's run, its locals
  runResult,  \* what Preprocessor::run came to
  stdout,     \* the response written to standard output, if any
  diag,       \* the lines written to standard error
  exit        \* the process's exit status, once it has exited

vars == <<pre, mode, renderer, input, book, pc, idx, error, units, last, runResult,
          stdout, diag, exit>>

BoundedSeq(S, n) == UNION {[1..k -> S] : k \in 0..n}

Names == <<"ch1", "ch2", "ch3", "ch4">>

\* A chapter with a source file, a draft chapter (no source_path), a separator.
ItemKinds == {"chapter", "draft", "separator"}

Item(i, kind) ==
  [kind |-> IF kind = "separator" THEN "separator" ELSE "chapter",
   name |-> Names[i],
   source_path |-> IF kind = "chapter" THEN Some(Names[i]) ELSE None,
   content |-> <<>>]

Book(shape) == [i \in 1..Len(shape) |-> Item(i, shape[i])]

NoGit == GitRun("none", None, TRUE, <<>>, "")
NoUnit == [ret |-> "none", err |-> NoError, spawned |-> 0]
NoLast == [unit |-> 0, git |-> NoGit, agg |-> None]

\* Lines git can print: a well-formed one, a line with one field, one with
\* three, one whose second field is no timestamp.
Line(author, time) == <<Q, author, TAB, time, Q>>
LineOneField == <<Q, "A", Q>>
LineThreeFields == <<Q, "A", TAB, T1, TAB, "B", Q>>
LineBadTime == <<Q, "A", TAB, BadTime, Q>>
SpecLines == {Line("A", T3), LineOneField, LineThreeFields, LineBadTime}

\* The runs of git the whole-program specification draws from.
GitRuns ==
  {GitRun("spawn_failed", None, TRUE, <<>>, ""), GitRun("wait_failed", None, TRUE, <<>>, "")}
  \cup {GitRun("exited", c, TRUE, l, "fatal") :
          c \in {None, Some(1)}, l \in {<<>>, <<Line("A", T3)>>}}
  \cup {GitRun("exited", Some(0), FALSE, <<>>, "")}
  \cup {GitRun("exited", Some(0), TRUE, l, "") : l \in BoundedSeq(SpecLines, MaxLines)}

\* The runs of git the aggregation specification draws from: well-formed logs.
AggLines == {Line("A", T3), Line("A", T1), Line("B", T1), Line("C", T2)}
AggRuns == {GitRun("exited", Some(0), TRUE, l, "") : l \in BoundedSeq(AggLines, MaxLog)}

Start ==
  /\ book = <<>> /\ pc = "main" /\ idx = 0 /\ error = None /\ units = <<>>
  /\ last = NoLast /\ runResult = [tag |-> "none", err |-> NoError]
  /\ stdout = None /\ diag = <<>> /\ exit = None

Init ==
  /\ pre \in {"GitInfo", "GitInfoPreprocessor"}
  /\ \/ /\ mode = "supports" /\ renderer \in {"html", "epub"}
        /\ input = [ok |-> TRUE, version_ok |-> TRUE, book |-> <<>>]
     \/ /\ mode = "preprocess" /\ renderer = "html"
        /\ input \in [ok : BOOLEAN, version_ok : BOOLEAN,
                      book : {Book(sh) : sh \in BoundedSeq(ItemKinds, MaxUnits)}]
  /\ Start

AggInit ==
  /\ pre \in {"GitInfo", "GitInfoPreprocessor"}
  /\ mode = "preprocess" /\ renderer = "html"
  /\ input = [ok |-> TRUE, version_ok |-> TRUE, book |-> Book(<<"chapter">>)]
  /\ Start

\* ----------------------------------------------------------------- actions
supports_renderer(r) == r = "html"

\* main, `supports` given: handle_supports
handle_supports ==
  /\ pc = "main" /\ mode = "supports"
  /\ exit' = Some(IF supports_renderer(renderer) THEN 0 ELSE 1)
  /\ pc' = "exited"
  /\ UNCHANGED <<pre, mode, renderer, input, book, idx, error, units, last, runResult,
                 stdout, diag>>

\* anyhow's Display: the outermost context, or the message.
Display(e) == IF e.ctx # <<>> THEN e.ctx[1][1] ELSE e.msg

\* handle_preprocessing up to pre.run: parse_input and the version warning.
ParseInput ==
  /\ pc = "main" /\ mode = "preprocess"
  /\ IF ~input.ok
     THEN /\ diag' = Append(diag, "parse error")
          /\ exit' = Some(1)
          /\ pc' = "exited"
          /\ UNCHANGED <<book, idx, units>>
     ELSE /\ diag' = IF input.version_ok THEN diag ELSE Append(diag, "Warning")
          /\ book' = input.book
          /\ units' = [i \in 1..Len(input.book) |-> NoUnit]
          /\ idx' = 1
          /\ pc' = "run"
          /\ UNCHANGED exit
  /\ UNCHANGED <<pre, mode, renderer, input, error, last, runResult, stdout>>

enrich_chapter(chapter, git, oc) ==
  IF pre = "GitInfo" THEN EnrichChapterBin(chapter, git, oc)
  ELSE EnrichChapterLib(chapter, git, oc)

\* A panic unwinds out of main: the message on stderr, exit status 101.
Panic(printed) ==
  /\ pc' = "exited"
  /\ exit' = Some(101)
  /\ diag' = diag \o printed \o <<"panicked">>
  /\ runResult' = [tag |-> "panic", err |-> NoError]

\* One call of the closure run hands to for_each_mut.
Visit(git, oc) ==
  /\ pc = "run" /\ idx <= Len(book)
  /\ IF (pre = "GitInfoPreprocessor" /\ IsSome(error)) \/ book[idx].kind # "chapter"
     THEN /\ idx' = idx + 1
          /\ UNCHANGED <<book, pc, error, units, last, runResult, diag, exit>>
     ELSE LET o == enrich_chapter(book[idx], git, oc)
          IN /\ units' = [units EXCEPT ![idx] =
                            [ret |-> o.tag, err |-> o.err, spawned |-> o.spawned]]
             /\ last' = [unit |-> idx,
                         git |-> IF IsSome(book[idx].source_path) THEN git ELSE NoGit,
                         agg |-> o.agg]
             /\ book' = [book EXCEPT ![idx].content = o.content]
             /\ idx' = idx + 1
             /\ IF o.tag = "panic" \/ (o.tag = "err" /\ pre = "GitInfo")
                THEN Panic(o.printed) /\ UNCHANGED error
                ELSE /\ error' = IF o.tag = "err"
                                 THEN Some(context(o.err, <<"Chapter name: ", book[idx].name>>))
                                 ELSE error
                     /\ diag' = diag \o o.printed
                     /\ UNCHANGED <<pc, runResult, exit>>
  /\ UNCHANGED <<pre, mode, renderer, input, stdout>>

\* Preprocessor::run's return value, once for_each_mut is through.
RunReturn ==
  IF pre = "GitInfoPreprocessor" /\ IsSome(error)
  THEN [tag |-> "err", err |-> error[1]]
  ELSE [tag |-> "ok", err |-> NoError]

\* A mutant of handle_preprocessing: the book is serialised before run's result
\* is looked at.
handle_preprocessing_writes_first(result, processed) ==
  [stdout |-> Some(processed),
   diag |-> IF result.tag = "err" THEN <<Display(result.err)>> ELSE <<>>,
   exit |-> IF result.tag = "err" THEN 1 ELSE 0]

\* handle_preprocessing from pre.run's result on, and main's handling of it:
\* what is written to stdout and stderr, and the exit status.
handle_preprocessing(result, processed) ==
  IF result.tag = "err"
  THEN [stdout |-> None, diag |-> <<Display(result.err)>>, exit |-> 1]
  ELSE [stdout |-> Some(processed), diag |-> <<>>, exit |-> 0]

\* for_each_mut is through: run returns, the response is written, main ends.
\* (A write to stdout that itself fails is not modelled.)
Finish ==
  /\ pc = "run" /\ idx > Len(book)
  /\ runResult' = RunReturn
  /\ LET h == handle_preprocessing(RunReturn, book)
     IN /\ stdout' = h.stdout
        /\ diag' = diag \o h.diag
        /\ exit' = Some(h.exit)
  /\ pc' = "exited"
  /\ UNCHANGED <<pre, mode, renderer, input, book, idx, error, units, last>>

VisitAny ==
  /\ pc = "run" /\ idx <= Len(book)
  /\ \E git \in GitRuns : \E oc \in Orders(book[idx], git) : Visit(git, oc)

Next == handle_supports \/ ParseInput \/ VisitAny \/ Finish

Spec == Init /\ [][Next]_vars

VisitWellFormed ==
  /\ pc = "run" /\ idx <= Len(book)
  /\ \E git \in AggRuns : \E oc \in Orders(book[idx], git) : Visit(git, oc)

AggNext == ParseInput \/ VisitWellFormed \/ Finish

AggSpec == AggInit /\ [][AggNext]_vars

\* ------------------------------------------------------------------ claims
\* The latest enrich_chapter call returned Ok: its history, its locals and the
\* fragment it appended.
LastOk == last.unit # 0 /\ units[last.unit].ret = "ok" /\ IsSome(last.agg)
LastHistory == last.agg[1].history
LastOthers == last.agg[1].other_contributors
LastFragment == book[last.unit].content[Len(book[last.unit].content)]

\* A line of git's output that is not author, tab, timestamp once unquoted.
Malformed(line) ==
  LET f == split(trim_matches(line, Q), TAB)
  IN Len(f) # 2 \/ f[2] \notin {<<T1>>, <<T2>>, <<T3>>}

\* git ran to a zero exit status and printed valid text.
GitSucceeded(git) == git.launch = "exited" /\ git.code = Some(0) /\ git.utf8

\* C1: a line of the log that is not exactly author, tab, RFC-3339 timestamp
\* makes the file's extraction return an error value: no record is built from
\* it and the process does not abort.
C1_MalformedLineIsAnError ==
  (last.unit # 0 /\ GitSucceeded(last.git)
     /\ \E i \in 1..Len(last.git.lines) : Malformed(last.git.lines[i]))
  => units[last.unit].ret = "err"

\* C2: when git exits with a non-zero status, the unit's extraction fails with
\* an error that carries the exit code, git's stdout and git's stderr, and the
\* unit's content is what it was before the call.
C2_QueryFailedCarriesStreams ==
  (last.unit # 0 /\ last.git.launch = "exited" /\ IsSome(last.git.code)
     /\ last.git.code # Some(0))
  => /\ units[last.unit].ret = "err"
     /\ units[last.unit].err.code = last.git.code[1]
     /\ units[last.unit].err.out = last.git.lines
     /\ units[last.unit].err.err = last.git.err
     /\ book[last.unit].content = <<>>

\* C3: once enrich_chapter has returned an error for unit k, no query is
\* spawned for a later unit, no later unit's content changes, and run returns
\* that error annotated with the name of unit k.
C3_FailFastReturnsAnnotatedError ==
  \A k \in 1..Len(units) :
    units[k].ret = "err"
    => /\ \A j \in (k + 1)..Len(units) : units[j].spawned = 0 /\ book[j].content = <<>>
       /\ pc = "exited"
          => /\ runResult.tag = "err"
             /\ runResult.err.ctx # <<>>
             /\ runResult.err.ctx[1] = <<"Chapter name: ", book[k].name>>

\* Some step of the preprocessing run failed: the request did not parse, or a
\* unit's enrich_chapter returned an error or panicked.
Failed == ~input.ok \/ \E i \in 1..Len(units) : units[i].ret \in {"err", "panic"}

\* C4: in preprocessing mode the response is on stdout only once every chapter
\* of the book has been processed successfully; after a failed step the
\* process ends with nothing on stdout, the error on stderr last, and a
\* non-zero exit status.
C4_ResponseOnlyAfterSuccess ==
  mode = "preprocess"
  => /\ stdout # None
        => /\ input.ok /\ pc = "exited" /\ exit = Some(0)
           /\ stdout = Some(book)
           /\ \A i \in 1..Len(book) : book[i].kind = "chapter" => units[i].ret = "ok"
     /\ (pc = "exited" /\ Failed)
        => /\ stdout = None
           /\ exit # None /\ exit # Some(0)
           /\ diag # <<>>
           /\ diag[Len(diag)] \in {"parse error", "panicked", "Chapter name: "}

\* C4's case: the second chapter's extraction failed after the first one's
\* fragment was appended, and the process has ended.
C4_Witness ==
  /\ mode = "preprocess" /\ pc = "exited" /\ Len(units) = 2
  /\ units[1].ret = "ok" /\ units[2].ret = "err"
  /\ book[1].content # <<>>

\* C5: for a non-empty history, last_commit is its first element and
\* first_commit its last; the row shows first_commit's date and author under
\* 'Created on' and 'Created by' and last_commit's under 'Last edit on' and
\* 'Last edit by'.
C5_FirstLastAndTheirCells ==
  (LastOk /\ LastHistory # <<>>)
  => LET h == LastHistory
     IN /\ last.agg[1].last_commit = Some(h[1])
        /\ last.agg[1].first_commit = Some(h[Len(h)])
        /\ Cell(LastFragment, "Created on") = Some(<<FormatDate(h[Len(h)].timestamp)>>)
        /\ Cell(LastFragment, "Created by") = Some(h[Len(h)].author)
        /\ Cell(LastFragment, "Last edit on") = Some(<<FormatDate(h[1].timestamp)>>)
        /\ Cell(LastFragment, "Last edit by") = Some(h[1].author)

\* The names in the rendered contributors cell: its symbols unless "<br>".
RenderedNames(cell) == {cell[i] : i \in {j \in 1..Len(cell) : cell[j] # "<br>"}}

\* C6: other_contributors, and the cell rendered from it, never holds the
\* author of the newest record, even when that author wrote older records.
C6_NewestAuthorNotAmongOthers ==
  (LastOk /\ LastHistory # <<>>)
  => /\ \A i \in 1..Len(LastOthers) : LastOthers[i] # LastHistory[1].author
     /\ \A n \in RenderedNames(Cell(LastFragment, "Other contributors")[1]) :
          <<n>> # LastHistory[1].author

\* C6's case: the newest record's author also wrote a record in between.
C6_Witness ==
  /\ LastOk /\ Len(LastHistory) >= 4
  /\ LastHistory[2].author = LastHistory[1].author
  /\ LastOthers # <<>>

\* C7: the rendered other_contributors is in strictly ascending order (so no
\* name is there twice) whatever the order and multiplicity of the candidates,
\* and the cell is those names with "<br>" between them.
C7_OthersSortedNoDuplicates ==
  LastOk
  => LET cell == Cell(LastFragment, "Other contributors")[1]
     IN /\ \A i \in 1..(Len(LastOthers) - 1) : StrLess(LastOthers[i], LastOthers[i + 1])
        /\ Len(cell) = Max(2 * Len(LastOthers) - 1, 0)
        /\ \A i \in 1..Len(cell) :
             IF i % 2 = 1 THEN <<cell[i]>> = LastOthers[(i + 1) \div 2] ELSE cell[i] = "<br>"

\* C7's case: three candidates, one author twice, in descending order.
C7_Witness ==
  /\ LastOk /\ Len(LastHistory) = 5
  /\ LastHistory[2].author = LastHistory[4].author
  /\ StrLess(LastHistory[3].author, LastHistory[2].author)
  /\ Len(LastOthers) = 2

\* C8: other_contributors is empty for a history of 0, 1 or 2 records, and for
\* a longer one it is the authors of the records strictly between the newest
\* and the oldest that differ from the newest record's author.
C8_OthersFromInnerRecords ==
  LastOk
  => LET h == LastHistory
         oc == {LastOthers[i] : i \in 1..Len(LastOthers)}
     IN IF Len(h) <= 2 THEN LastOthers = <<>>
        ELSE oc = {h[i].author : i \in 2..(Len(h) - 1)} \ {h[1].author}

\* C8's case: three records by three authors; the oldest record's author is
\* nowhere else and is no contributor.
C8_Witness ==
  /\ LastOk /\ Len(LastHistory) = 3
  /\ LastOthers = <<LastHistory[2].author>>
  /\ LastHistory[3].author \notin {LastHistory[1].author, LastHistory[2].author}

\* C9: when git succeeds with empty output the unit gets a fragment whose row
\* has n/a in the creation date, creation author, last-edit date and last-edit
\* author cells and an empty contributors cell.
C9_EmptyHistoryRendersNA ==
  (last.unit # 0 /\ GitSucceeded(last.git) /\ last.git.lines = <<>>)
  => /\ LastOk
     /\ last.agg[1].first_commit = None /\ last.agg[1].last_commit = None
     /\ \A t \in {"Created on", "Created by", "Last edit on", "Last edit by"} :
          Cell(LastFragment, t) = Some(NA)
     /\ Cell(LastFragment, "Other contributors") = Some(<<>>)

\* C10: enrich_chapter returns Ok or Err for every chapter visited, a draft
\* chapter included; it never panics.
C10_EnrichNeverPanics ==
  \A i \in 1..Len(units) : units[i].ret # "panic"

====
